---- MODULE Spec2Model ----
(* Model of synology_backuper (src/src/main.rs): capability discovery,     *)
(* login, share listing, share resolution, upload and logout against the   *)
(* Synology web API, with the layered error decoder.                        *)
EXTENDS Integers, Naturals, Sequences, FiniteSets, TLC

VARIABLES pc, advertised, api_info, shares, sent, res, resp, out, panic,
          file_exists, call

vars == <<pc, advertised, api_info, shares, sent, res, resp, out, panic,
          file_exists, call>>

(***************************************************************************)
(* Bounds of the model.                                                    *)
(***************************************************************************)
MaxAdv == 4
MaxMissing == 1
MaxShares == 2
MaxCode == 1810
MaxNameLen == 3

(***************************************************************************)
(* Program constants.                                                      *)
(***************************************************************************)
U8Modulus == 256
InfoVersion == 1
AuthVersion == 3
ListVersion == 2
UploadVersion == 2

API_INFO == "SYNO.API.Info"
API_AUTH == "SYNO.API.Auth"
FS_INFO == "SYNO.FileStation.Info"
FS_UPLOAD == "SYNO.FileStation.Upload"
FS_LIST == "SYNO.FileStation.List"

\* the namespaces named in the discovery query string
RequestedNamespaces == {API_INFO, API_AUTH, FS_INFO, FS_UPLOAD, FS_LIST}

\* Option<T>
None == [some |-> FALSE]
Some(v) == [some |-> TRUE, val |-> v]

(***************************************************************************)
(* Error decoding.                                                         *)
(***************************************************************************)
UNKNOWN_CODE == "Error code unknown"

CommonErrorTable ==
  [c \in (100..107) \cup {119} |->
     CASE c = 100 -> "Unknown error"
       [] c = 101 -> "No parameter of API, method or version"
       [] c = 102 -> "The requested API does not exist"
       [] c = 103 -> "The requested method does not exist"
       [] c = 104 -> "The requested version does not support the functionality"
       [] c = 105 -> "The logged in session does not have permission"
       [] c = 106 -> "Session timeout"
       [] c = 107 -> "Session interrupted by duplicate login"
       [] c = 119 -> "SID not found"]

format_common_error(code) ==
  IF code \in DOMAIN CommonErrorTable THEN CommonErrorTable[code] ELSE UNKNOWN_CODE

FileStationCommonErrorTable ==
  [c \in (400..421) \cup {599} |->
     CASE c = 400 -> "Invalid parameter of file operation"
       [] c = 401 -> "Unknown error of file operation"
       [] c = 402 -> "System is too busy"
       [] c = 403 -> "Invalid user does this file operation"
       [] c = 404 -> "Invalid group does this file operation"
       [] c = 405 -> "Invalid user and group does this file operation"
       [] c = 406 -> "Can't get user/group information from the account server"
       [] c = 407 -> "Operation not permitted"
       [] c = 408 -> "No such file or directory"
       [] c = 409 -> "Non-supported file system"
       [] c = 410 -> "Failed to connect internet-based file system (ex: CIFS)"
       [] c = 411 -> "Read-only file system"
       [] c = 412 -> "Filename too long in the non-encrypted file system"
       [] c = 413 -> "Filename too long in the encrypted file system"
       [] c = 414 -> "File already exists"
       [] c = 415 -> "Disk quota exceeded"
       [] c = 416 -> "No space left on device"
       [] c = 417 -> "Input/output error"
       [] c = 418 -> "Illegal name or path"
       [] c = 419 -> "Illegal file name"
       [] c = 420 -> "Illegal file name on FAT file system"
       [] c = 421 -> "Device or resource busy"
       [] c = 599 -> "No such task of the file operation"]

file_station_common_error_str(code) ==
  IF code \in DOMAIN FileStationCommonErrorTable
    THEN FileStationCommonErrorTable[code]
    ELSE format_common_error(code)

\* (the source's string for 1805 quotes the word overwrite with backquotes,
\* which a TLA+ string cannot hold; apostrophes stand for them)
UploadErrorTable ==
  [c \in 1800..1805 |->
     CASE c = 1800 -> "There is no Content-Length information in the HTTP header or the receved size doesn't match the value of Content-Length information in the HTTP header."
       [] c = 1801 -> "Wait too long, no date can be receved from client. (Default maximum wait time is 3600 seconds)."
       [] c = 1802 -> "No filename information in the last part of file content."
       [] c = 1803 -> "Upload connection is cancelled."
       [] c = 1804 -> "Failed to upload oversized file to FAT file system."
       [] c = 1805 -> "Can't overwrite or skip the existed file, if no 'overwrite' parameter is given."]

file_station_upload_error_str_skip_tier(code) ==
  IF code \in DOMAIN UploadErrorTable
    THEN UploadErrorTable[code]
    ELSE format_common_error(code)

file_station_upload_error_str(code) ==
  IF code \in DOMAIN UploadErrorTable
    THEN UploadErrorTable[code]
    ELSE file_station_common_error_str(code)

AuthErrorTable ==
  [c \in 400..404 |->
     CASE c = 400 -> "No such account or incorrect password"
       [] c = 401 -> "Account disabled"
       [] c = 402 -> "Permission denied"
       [] c = 403 -> "2-step verification code required"
       [] c = 404 -> "Failed to authenticate 2-step verification code"]

auth_error_str_file_fallback(code) ==
  IF code \in DOMAIN AuthErrorTable
    THEN AuthErrorTable[code]
    ELSE file_station_common_error_str(code)

auth_error_str(code) ==
  IF code \in DOMAIN AuthErrorTable
    THEN AuthErrorTable[code]
    ELSE format_common_error(code)

\* Outcome of a call: "Ok" (Ok value), "Err" (Err value) or "Panic" (abort).
Panic(why) == [outcome |-> "Panic", why |-> why]

\* (variant: a reply without an error object or code is still an Err value)
format_error_response_lenient(api_name, r) ==
  IF ~r.error.some \/ ~r.error.val.hasCode
    THEN [outcome |-> "Err", msg |-> <<0, UNKNOWN_CODE>>]
  ELSE IF api_name \notin {API_AUTH, FS_LIST, FS_UPLOAD} THEN Panic("Unknown API name")
  ELSE [outcome |-> "Err",
        msg |-> <<r.error.val.code,
                  CASE api_name = API_AUTH -> auth_error_str(r.error.val.code)
                    [] api_name = FS_LIST -> file_station_common_error_str(r.error.val.code)
                    [] api_name = FS_UPLOAD -> file_station_upload_error_str(r.error.val.code)>>]

\* resp.error: Option of the error object; an error object either carries
\* an integer code or does not.  The anyhow message "{code} - {error_str}"
\* is the pair <<code, error_str>>.
format_error_response(api_name, r) ==
  IF ~r.error.some THEN Panic("Cannot format error if there is no error!")
  ELSE IF ~r.error.val.hasCode THEN Panic("All error objects must have an error code")
  ELSE IF api_name \notin {API_AUTH, FS_LIST, FS_UPLOAD} THEN Panic("Unknown API name")
  ELSE [outcome |-> "Err",
        msg |-> <<r.error.val.code,
                  CASE api_name = API_AUTH -> auth_error_str(r.error.val.code)
                    [] api_name = FS_LIST -> file_station_common_error_str(r.error.val.code)
                    [] api_name = FS_UPLOAD -> file_station_upload_error_str(r.error.val.code)>>]

(***************************************************************************)
(* Server replies.  A reply is a transport failure (send() is Err), a body *)
(* that is not a SynoResponse (json() is Err), or a SynoResponse.          *)
(***************************************************************************)
SampleCodes == {400, 1800}

ErrorValues ==
  {None, Some([hasCode |-> FALSE])}
    \cup {Some([hasCode |-> TRUE, code |-> c]) : c \in SampleCodes}

SynoResponse(D) ==
  {[kind |-> "json", success |-> s, data |-> d, error |-> e] :
     s \in BOOLEAN, d \in D, e \in ErrorValues}

Replies(D) == {[kind |-> "transport"], [kind |-> "badjson"]} \cup SynoResponse(D)

EmptyData == {None, Some([kind |-> "empty"])}
Malformed == Some([kind |-> "malformed"])

\* the versions a server may advertise: small ones, and one that does not
\* fit in a u8
AdvVersions == (1..MaxAdv) \cup {U8Modulus + AuthVersion}

\* the bounds a namespace may advertise: wide ones, or a single version
VersionPairs == {<<1, MaxAdv>>} \cup {<<v, v>> : v \in AdvVersions}

Versioned == {API_AUTH, FS_LIST, FS_UPLOAD}

PathOf(n) == IF n = API_INFO THEN "query.cgi" ELSE "entry.cgi"

AdvertisedEntry(n, d) ==
  [name |-> n,
   minVersion |-> IF n \in Versioned THEN d[n][1] ELSE 1,
   maxVersion |-> IF n \in Versioned THEN d[n][2] ELSE 1,
   path |-> PathOf(n)]

\* the data object of a discovery reply: one entry per namespace present,
\* at most MaxMissing of the requested ones absent
AdvertisedTables ==
  {{AdvertisedEntry(n, d) : n \in S} :
     S \in {X \in SUBSET RequestedNamespaces :
              Cardinality(RequestedNamespaces \ X) <= MaxMissing},
     d \in [Versioned -> VersionPairs]}

DiscoveryData ==
  {None, Malformed} \cup {Some([kind |-> "apis", apis |-> t]) : t \in AdvertisedTables}

ShareEntries ==
  {[name |-> "homes", path |-> "/home"],
   [name |-> "docs", path |-> "/docs"],
   [name |-> "Docs", path |-> "/Docs"]}

ShareLists == UNION {[1..n -> ShareEntries] : n \in 0..MaxShares}

ListData ==
  {None, Malformed} \cup {Some([kind |-> "shares", shares |-> l]) : l \in ShareLists}

DiscoveryReplies == Replies(DiscoveryData)
ListReplies == Replies(ListData)
EmptyReplies == Replies(EmptyData)

(***************************************************************************)
(* The calls.  Each returns its outcome and whether its request was sent.  *)
(***************************************************************************)
AsU8(n) == n % U8Modulus

Request(api_path, api_name, version, method, path) ==
  [api_path |-> api_path, api |-> api_name, version |-> version,
   method |-> method, path |-> path]

NotSent(r) == [sent |-> FALSE] @@ r
Sent(r) == [sent |-> TRUE] @@ r

Ok(v) == [outcome |-> "Ok", val |-> v]

ApiInfo(e) ==
  [min_version |-> AsU8(e.minVersion), max_version |-> AsU8(e.maxVersion),
   path |-> e.path, name |-> e.name]

get_api_versions(reply) ==
  IF reply.kind = "transport" THEN Sent(Panic("send"))
  ELSE IF reply.kind = "badjson" THEN Sent(Panic("json"))
  ELSE IF reply.success
    THEN IF ~reply.data.some THEN Sent(Panic("data"))
         ELSE IF reply.data.val.kind # "apis" THEN Sent(Panic("field"))
         ELSE Sent(Ok({ApiInfo(e) : e \in reply.data.val.apis}))
    ELSE Sent(format_error_response(API_INFO, reply))

\* api.iter().find(|x| x.name == api_name): the names of a table are the
\* keys of a JSON object, so at most one entry matches
Find(api, api_name) ==
  IF \E x \in api : x.name = api_name
    THEN Some(CHOOSE x \in api : x.name = api_name)
    ELSE None

login(api, reply) ==
  LET a == Find(api, API_AUTH) IN
  IF ~a.some THEN NotSent(Panic("find"))
  ELSE IF ~(AuthVersion <= a.val.max_version) THEN NotSent(Panic("assert max_version"))
  ELSE IF ~(a.val.min_version <= AuthVersion) THEN NotSent(Panic("assert min_version"))
  ELSE IF reply.kind = "transport" THEN Sent(Panic("send"))
  ELSE IF reply.kind = "badjson" THEN Sent(Panic("json"))
  ELSE IF reply.success THEN Sent(Ok(<<>>))
  ELSE Sent(format_error_response(API_AUTH, reply))

logout(api, reply) ==
  LET a == Find(api, API_AUTH) IN
  IF ~a.some THEN NotSent(Panic("find"))
  ELSE IF reply.kind = "transport" THEN Sent(Panic("send"))
  ELSE IF reply.kind = "badjson" THEN Sent(Panic("json"))
  ELSE IF reply.success THEN Sent(Ok(<<>>))
  ELSE Sent(format_error_response(API_AUTH, reply))

list_fileshares_auth_ns(api, reply) ==
  LET a == Find(api, FS_LIST) IN
  IF ~a.some THEN NotSent(Panic("find"))
  ELSE IF ~(ListVersion <= a.val.max_version) THEN NotSent(Panic("assert max_version"))
  ELSE IF ~(a.val.min_version <= ListVersion) THEN NotSent(Panic("assert min_version"))
  ELSE IF reply.kind = "transport" THEN Sent(Panic("send"))
  ELSE IF reply.kind = "badjson" THEN Sent(Panic("json"))
  ELSE IF reply.success
    THEN IF ~reply.data.some THEN Sent(Panic("data"))
         ELSE IF reply.data.val.kind # "shares" THEN Sent(Panic("field"))
         ELSE Sent(Ok(reply.data.val.shares))
    ELSE Sent(format_error_response(API_AUTH, reply))

list_fileshares(api, reply) ==
  LET a == Find(api, FS_LIST) IN
  IF ~a.some THEN NotSent(Panic("find"))
  ELSE IF ~(ListVersion <= a.val.max_version) THEN NotSent(Panic("assert max_version"))
  ELSE IF ~(a.val.min_version <= ListVersion) THEN NotSent(Panic("assert min_version"))
  ELSE IF reply.kind = "transport" THEN Sent(Panic("send"))
  ELSE IF reply.kind = "badjson" THEN Sent(Panic("json"))
  ELSE IF reply.success
    THEN IF ~reply.data.some THEN Sent(Panic("data"))
         ELSE IF reply.data.val.kind # "shares" THEN Sent(Panic("field"))
         ELSE Sent(Ok(reply.data.val.shares))
    ELSE Sent(format_error_response(FS_LIST, reply))

upload_file_exists_first(apis, exists, reply) ==
  LET a == Find(apis, FS_UPLOAD) IN
  IF ~a.some THEN NotSent(Panic("find"))
  ELSE IF ~exists THEN NotSent([outcome |-> "Err", msg |-> <<"File to backup does not exist">>])
  ELSE IF ~(UploadVersion <= a.val.max_version) THEN NotSent(Panic("assert max_version"))
  ELSE IF ~(a.val.min_version <= UploadVersion) THEN NotSent(Panic("assert min_version"))
  ELSE IF reply.kind = "transport" THEN Sent(Panic("send"))
  ELSE IF reply.kind = "badjson" THEN Sent(Panic("json"))
  ELSE IF reply.success THEN Sent(Ok(<<>>))
  ELSE Sent(format_error_response(FS_UPLOAD, reply))

upload_file_no_min_check(apis, exists, reply) ==
  LET a == Find(apis, FS_UPLOAD) IN
  IF ~a.some THEN NotSent(Panic("find"))
  ELSE IF ~(UploadVersion <= a.val.max_version) THEN NotSent(Panic("assert max_version"))
  ELSE IF ~exists THEN NotSent([outcome |-> "Err", msg |-> <<"File to backup does not exist">>])
  ELSE IF reply.kind = "transport" THEN Sent(Panic("send"))
  ELSE IF reply.kind = "badjson" THEN Sent(Panic("json"))
  ELSE IF reply.success THEN Sent(Ok(<<>>))
  ELSE Sent(format_error_response(FS_UPLOAD, reply))

upload_file(apis, exists, reply) ==
  LET a == Find(apis, FS_UPLOAD) IN
  IF ~a.some THEN NotSent(Panic("find"))
  ELSE IF ~(UploadVersion <= a.val.max_version) THEN NotSent(Panic("assert max_version"))
  ELSE IF ~(a.val.min_version <= UploadVersion) THEN NotSent(Panic("assert min_version"))
  ELSE IF ~exists THEN NotSent([outcome |-> "Err", msg |-> <<"File to backup does not exist">>])
  ELSE IF reply.kind = "transport" THEN Sent(Panic("send"))
  ELSE IF reply.kind = "badjson" THEN Sent(Panic("json"))
  ELSE IF reply.success THEN Sent(Ok(<<>>))
  ELSE Sent(format_error_response(FS_UPLOAD, reply))

(***************************************************************************)
(* add_dt_to_filename.  A file name is a sequence of characters; the names *)
(* here are single path components.                                        *)
(***************************************************************************)
DigitChars == <<"0", "1", "2", "3", "4", "5", "6", "7", "8", "9">>

Digit(n) == DigitChars[n + 1]

\* chrono's %m %d %H %M %S: two digits, zero padded
Pad2(n) == <<Digit((n \div 10) % 10), Digit(n % 10)>>

\* chrono's %Y for the years 0..9999: four digits, zero padded
Pad4(n) == Pad2(n \div 100) \o Pad2(n % 100)

\* format("%Y%m%d_%H%M%S")
FormatDt(t) ==
  Pad4(t.year) \o Pad2(t.month) \o Pad2(t.day) \o <<"_">>
    \o Pad2(t.hour) \o Pad2(t.minute) \o Pad2(t.second)

\* Path::file_name of a single component: none for "", "." and ".."
file_name(f) ==
  IF f \in {<<>>, <<".">>, <<".", ".">>} THEN None ELSE Some(f)

Dots(f) == {i \in 1..Len(f) : f[i] = "."}

split_at_first_dot(f) ==
  IF Dots(f) = {} THEN [before |-> None, after |-> Some(f)]
  ELSE LET i == CHOOSE d \in Dots(f) : \A e \in Dots(f) : d <= e IN
       IF i = 1 THEN [before |-> Some(f), after |-> None]
       ELSE [before |-> Some(SubSeq(f, 1, i - 1)),
             after |-> Some(SubSeq(f, i + 1, Len(f)))]

\* std's rsplit_file_at_dot: split at the last dot; a name whose only dot
\* leads it is all stem
rsplit_file_at_dot(f) ==
  IF Dots(f) = {} THEN [before |-> None, after |-> Some(f)]
  ELSE LET i == CHOOSE d \in Dots(f) : \A e \in Dots(f) : e <= d IN
       IF i = 1 THEN [before |-> Some(f), after |-> None]
       ELSE [before |-> Some(SubSeq(f, 1, i - 1)),
             after |-> Some(SubSeq(f, i + 1, Len(f)))]

\* before.or(after)
file_stem(f) ==
  LET n == file_name(f) IN
  IF ~n.some THEN None
  ELSE LET p == rsplit_file_at_dot(n.val) IN
       IF p.before.some THEN p.before ELSE p.after

\* before.and(after)
extension(f) ==
  LET n == file_name(f) IN
  IF ~n.some THEN None
  ELSE LET p == rsplit_file_at_dot(n.val) IN
       IF p.before.some THEN p.after ELSE None

add_dt_to_filename(filename, now) ==
  LET dt == FormatDt(now)
      stem == file_stem(filename)
      ext == extension(filename)
  IN IF ~stem.some THEN Panic("file_stem")
     ELSE IF ext.some
       THEN Ok(stem.val \o <<"_">> \o dt \o <<".">> \o ext.val)
       ELSE Ok(stem.val \o <<"_">> \o dt)

(***************************************************************************)
(* main: the calls in sequence, each call site deciding what a failed call *)
(* does to the run.                                                        *)
(***************************************************************************)
Steps == {"discover", "login", "list", "upload", "logout"}

share_name == "docs"

NoResp == [call |-> "none"]

\* the server replies to a request that was sent; a call that stops before
\* sending sees no reply
NoReply == [kind |-> "transport"]
RepliesTo(r, R) == IF r.sent THEN R ELSE {NoReply}
NoCall == [fn |-> "none"]

Init ==
  /\ pc = "discover"
  /\ advertised = None
  /\ api_info = {}
  /\ shares = <<>>
  /\ sent = <<>>
  /\ res = [s \in Steps |-> "none"]
  /\ resp = NoResp
  /\ out = <<>>
  /\ panic = ""
  /\ file_exists = "unknown"
  /\ call = NoCall

\* .expect(msg) / .unwrap() on a call's Result: Ok goes on, Err aborts
Expect(r, next) == IF r.outcome = "Ok" THEN next ELSE "aborted"

PanicMsg(r, msg) ==
  CASE r.outcome = "Ok" -> ""
    [] r.outcome = "Err" -> msg
    [] r.outcome = "Panic" -> r.why

AfterDiscover_skip_login(r) == Expect(r, "list")

AfterDiscover(r) == Expect(r, "login")

AfterLogin_ignore_err(r) == IF r.outcome = "Panic" THEN "aborted" ELSE "list"

AfterLogin_retry(r) ==
  CASE r.outcome = "Ok" -> "list"
    [] r.outcome = "Err" -> "login"
    [] r.outcome = "Panic" -> "aborted"

AfterLogin(r) == Expect(r, "list")

AfterList_ignore_err(r) == IF r.outcome = "Panic" THEN "aborted" ELSE "upload"

AfterList(r) == Expect(r, "upload")

AfterUpload_abort_on_err(r) == Expect(r, "logout")

\* if let Err(e) = upload_file(..) { println!(..) }: only a panic aborts
AfterUpload(r) == IF r.outcome = "Panic" THEN "aborted" ELSE "logout"

AfterLogout(r) == Expect(r, "done")

MainDiscover ==
  /\ pc = "discover"
  /\ \E reply \in DiscoveryReplies :
       LET r == get_api_versions(reply) IN
       /\ sent' = Append(sent, Request("query.cgi", API_INFO, InfoVersion, "query", ""))
       /\ resp' = [call |-> "discover", reply |-> reply]
       /\ advertised' = IF reply.kind = "json" THEN reply.data ELSE None
       /\ res' = [res EXCEPT !["discover"] = r.outcome]
       /\ api_info' = IF r.outcome = "Ok" THEN r.val ELSE api_info
       /\ pc' = AfterDiscover(r)
       /\ panic' = PanicMsg(r, "The API version information could not be retrieved")
  /\ UNCHANGED <<shares, out, file_exists, call>>

MainLogin ==
  /\ pc = "login"
  /\ \E reply \in RepliesTo(login(api_info, NoReply), EmptyReplies) :
       LET r == login(api_info, reply) IN
       /\ sent' = IF r.sent
                    THEN Append(sent, Request(Find(api_info, API_AUTH).val.path,
                                              API_AUTH, AuthVersion, "login", ""))
                    ELSE sent
       /\ resp' = IF r.sent THEN [call |-> "login", reply |-> reply] ELSE resp
       /\ res' = [res EXCEPT !["login"] = r.outcome]
       /\ pc' = AfterLogin(r)
       /\ panic' = PanicMsg(r, "Login failed")
  /\ UNCHANGED <<advertised, api_info, shares, out, file_exists, call>>

MainList ==
  /\ pc = "list"
  /\ \E reply \in RepliesTo(list_fileshares(api_info, NoReply), ListReplies) :
       LET r == list_fileshares(api_info, reply) IN
       /\ sent' = IF r.sent
                    THEN Append(sent, Request(Find(api_info, FS_LIST).val.path,
                                              FS_LIST, ListVersion, "list_share", ""))
                    ELSE sent
       /\ resp' = IF r.sent THEN [call |-> "list", reply |-> reply] ELSE resp
       /\ res' = [res EXCEPT !["list"] = r.outcome]
       /\ shares' = IF r.outcome = "Ok" THEN r.val ELSE shares
       /\ pc' = AfterList(r)
       /\ panic' = PanicMsg(r, "I should be able to list shares")
  /\ UNCHANGED <<advertised, api_info, out, file_exists, call>>

Lower(name) == IF name = "Docs" THEN "docs" ELSE name

FindShare_ignore_case(l, name) ==
  IF \E i \in 1..Len(l) : Lower(l[i].name) = Lower(name)
    THEN Some(l[CHOOSE i \in 1..Len(l) :
                  /\ Lower(l[i].name) = Lower(name)
                  /\ \A j \in 1..(i - 1) : Lower(l[j].name) # Lower(name)])
    ELSE None

\* shares.iter().find(|x| x.name == share_name): the first share of that name
FindShare(l, name) ==
  IF \E i \in 1..Len(l) : l[i].name = name
    THEN Some(l[CHOOSE i \in 1..Len(l) :
                  /\ l[i].name = name
                  /\ \A j \in 1..(i - 1) : l[j].name # name])
    ELSE None

MainUpload ==
  /\ pc = "upload"
  /\ LET share == FindShare(shares, share_name) IN
     IF share.some
       THEN \E exists \in BOOLEAN :
            \E reply \in RepliesTo(upload_file(api_info, exists, NoReply), EmptyReplies) :
              LET r == upload_file(api_info, exists, reply) IN
              /\ sent' = IF r.sent
                           THEN Append(sent, Request(Find(api_info, FS_UPLOAD).val.path,
                                                     FS_UPLOAD, UploadVersion, "upload",
                                                     share.val.path))
                           ELSE sent
              /\ resp' = IF r.sent THEN [call |-> "upload", reply |-> reply] ELSE resp
              /\ file_exists' = IF r.outcome = "Panic" /\ ~r.sent THEN file_exists
                                ELSE IF exists THEN "yes" ELSE "no"
              /\ res' = [res EXCEPT !["upload"] = r.outcome]
              /\ out' = IF r.outcome = "Err"
                          THEN Append(out, <<"Error uploading file", r.msg>>)
                          ELSE out
              /\ pc' = AfterUpload(r)
              /\ panic' = PanicMsg(r, "")
       ELSE /\ out' = Append(out, <<"Share not found - could not upload file">>)
            /\ pc' = "logout"
            /\ UNCHANGED <<sent, resp, file_exists, res, panic>>
  /\ UNCHANGED <<advertised, api_info, shares, call>>

MainLogout ==
  /\ pc = "logout"
  /\ \E reply \in RepliesTo(logout(api_info, NoReply), EmptyReplies) :
       LET r == logout(api_info, reply) IN
       /\ sent' = IF r.sent
                    THEN Append(sent, Request(Find(api_info, API_AUTH).val.path,
                                              API_AUTH, AuthVersion, "logout", ""))
                    ELSE sent
       /\ resp' = IF r.sent THEN [call |-> "logout", reply |-> reply] ELSE resp
       /\ res' = [res EXCEPT !["logout"] = r.outcome]
       /\ pc' = AfterLogout(r)
       /\ panic' = PanicMsg(r, "called Result::unwrap() on an Err value")
  /\ UNCHANGED <<advertised, api_info, shares, out, file_exists, call>>

Next == MainDiscover \/ MainLogin \/ MainList \/ MainUpload \/ MainLogout

Spec == Init /\ [][Next]_vars

(***************************************************************************)
(* The calls on their own: Init draws the inputs of one call from the      *)
(* bounded sets and the action applies the call to them.                   *)
(***************************************************************************)
ApiTables == {{ApiInfo(e) : e \in t} : t \in AdvertisedTables}

ErrorReply(c) ==
  [kind |-> "json", success |-> FALSE, data |-> None,
   error |-> Some([hasCode |-> TRUE, code |-> c])]

DecodeInputs ==
  {[fn |-> "format_error_response", done |-> FALSE, api_name |-> n, code |-> c] :
     n \in {API_INFO, API_AUTH, FS_LIST, FS_UPLOAD}, c \in (-1)..MaxCode}

LogoutInputs ==
  {[fn |-> "logout", done |-> FALSE, api |-> t, reply |-> r] :
     t \in ApiTables, r \in EmptyReplies}

NameChars == {"a", "b", "."}

BACKUP_TAR == <<"b", "a", "c", "k", "u", "p", ".", "t", "a", "r">>
README == <<"R", "E", "A", "D", "M", "E">>

FileNames ==
  UNION {[1..n -> NameChars] : n \in 0..MaxNameLen} \cup {BACKUP_TAR, README}

Times ==
  {[year |-> 2024, month |-> 3, day |-> 5, hour |-> 10, minute |-> 15, second |-> 30],
   [year |-> 1999, month |-> 12, day |-> 31, hour |-> 23, minute |-> 59, second |-> 59],
   [year |-> 2030, month |-> 1, day |-> 1, hour |-> 0, minute |-> 0, second |-> 0]}

AddDtInputs ==
  {[fn |-> "add_dt_to_filename", done |-> FALSE, filename |-> f, now |-> t] :
     f \in FileNames, t \in Times}

\* the tables holding every requested namespace
FullTables == {t \in ApiTables : {x.name : x \in t} = RequestedNamespaces}

LoginInputs ==
  {[fn |-> "login", done |-> FALSE, api |-> t, reply |-> r] :
     t \in FullTables, r \in EmptyReplies}

ListInputs ==
  {[fn |-> "list_fileshares", done |-> FALSE, api |-> t, reply |-> r] :
     t \in FullTables, r \in EmptyReplies}

UploadInputs ==
  {[fn |-> "upload_file", done |-> FALSE, api |-> t, exists |-> e, reply |-> r] :
     t \in FullTables, e \in BOOLEAN, r \in EmptyReplies}

InitCall ==
  /\ pc = "discover"
  /\ advertised = None
  /\ api_info = {}
  /\ shares = <<>>
  /\ sent = <<>>
  /\ res = [s \in Steps |-> "none"]
  /\ resp = NoResp
  /\ out = <<>>
  /\ panic = ""
  /\ file_exists = "unknown"
  /\ call \in DecodeInputs \cup LogoutInputs \cup AddDtInputs
              \cup LoginInputs \cup ListInputs \cup UploadInputs

CallDecode ==
  /\ call.fn = "format_error_response" /\ ~call.done
  /\ call' = [fn |-> call.fn, done |-> TRUE, api_name |-> call.api_name,
              code |-> call.code,
              result |-> format_error_response(call.api_name, ErrorReply(call.code))]
  /\ UNCHANGED <<pc, advertised, api_info, shares, sent, res, resp, out, panic, file_exists>>

CallLogout ==
  /\ call.fn = "logout" /\ ~call.done
  /\ call' = [fn |-> call.fn, done |-> TRUE, api |-> call.api, reply |-> call.reply,
              result |-> logout(call.api, call.reply)]
  /\ UNCHANGED <<pc, advertised, api_info, shares, sent, res, resp, out, panic, file_exists>>

CallAddDt ==
  /\ call.fn = "add_dt_to_filename" /\ ~call.done
  /\ call' = [fn |-> call.fn, done |-> TRUE, filename |-> call.filename,
              now |-> call.now,
              result |-> add_dt_to_filename(call.filename, call.now)]
  /\ UNCHANGED <<pc, advertised, api_info, shares, sent, res, resp, out, panic, file_exists>>

CallLogin ==
  /\ call.fn = "login" /\ ~call.done
  /\ call' = [fn |-> call.fn, done |-> TRUE, api |-> call.api, reply |-> call.reply,
              result |-> login(call.api, call.reply)]
  /\ UNCHANGED <<pc, advertised, api_info, shares, sent, res, resp, out, panic, file_exists>>

CallList ==
  /\ call.fn = "list_fileshares" /\ ~call.done
  /\ call' = [fn |-> call.fn, done |-> TRUE, api |-> call.api, reply |-> call.reply,
              result |-> list_fileshares(call.api, call.reply)]
  /\ UNCHANGED <<pc, advertised, api_info, shares, sent, res, resp, out, panic, file_exists>>

CallUpload ==
  /\ call.fn = "upload_file" /\ ~call.done
  /\ call' = [fn |-> call.fn, done |-> TRUE, api |-> call.api, exists |-> call.exists,
              reply |-> call.reply,
              result |-> upload_file(call.api, call.exists, call.reply)]
  /\ UNCHANGED <<pc, advertised, api_info, shares, sent, res, resp, out, panic, file_exists>>

NextCall ==
  CallDecode \/ CallLogout \/ CallAddDt \/ CallLogin \/ CallList \/ CallUpload

SpecCall == InitCall /\ [][NextCall]_vars

(***************************************************************************)
(* Properties.                                                             *)
(***************************************************************************)
Terminal == pc \in {"done", "aborted"}

\* the number of requests of a method sent so far
Count(method) == Cardinality({i \in 1..Len(sent) : sent[i].method = method})

InBounds(a, version) == a.min_version <= version /\ version <= a.max_version

\* C1: a run that ended after a successful login has sent exactly one
\* logout request, whatever happened in between.
C1_LogoutOncePerLogin ==
  (Terminal /\ res["login"] = "Ok") => Count("logout") = 1

\* C2: when login returns an error the run is aborted and no share-listing,
\* upload or logout request has been sent.
C2_LoginFailureAborts ==
  res["login"] = "Err" =>
    /\ pc = "aborted"
    /\ Count("list_share") = 0
    /\ Count("upload") = 0
    /\ Count("logout") = 0

C2_Witness ==
  /\ res["login"] = "Err"
  /\ pc = "aborted"
  /\ resp.call = "login"
  /\ ~resp.reply.success
  /\ resp.reply.error = Some([hasCode |-> TRUE, code |-> 400])
  /\ panic = "Login failed"

\* C3: when upload_file returns an error (a domain error or the missing
\* local file) main prints it, does not abort because of it, and the logout
\* request is sent next.
C3_UploadErrorStillLogsOut ==
  res["upload"] = "Err" =>
    /\ Len(out) = 1 /\ out[1][1] = "Error uploading file"
    /\ pc \in {"logout", "done", "aborted"}
    /\ pc = "aborted" => res["logout"] \in {"Err", "Panic"}
    /\ pc # "logout" => (Count("logout") = 1 /\ sent[Len(sent)].method = "logout")

C3_Witness ==
  /\ res["upload"] = "Err"
  /\ file_exists = "yes"
  /\ out = <<<<"Error uploading file", <<1800, UploadErrorTable[1800]>>>>>>
  /\ pc = "done"
  /\ Count("upload") = 1
  /\ Count("logout") = 1

\* C4: login, list_fileshares and upload_file, called with a descriptor
\* whose bounds exclude the call's fixed version, abort without sending;
\* a request of these calls is only ever sent with the version in bounds.
VersionChecked(step, api_name, version, method) ==
  LET a == Find(api_info, api_name) IN
  (res[step] # "none" /\ a.some /\ ~InBounds(a.val, version)) =>
    (res[step] = "Panic" /\ Count(method) = 0 /\ pc = "aborted")

C4_VersionBoundsChecked ==
  /\ VersionChecked("login", API_AUTH, AuthVersion, "login")
  /\ VersionChecked("list", FS_LIST, ListVersion, "list_share")
  /\ VersionChecked("upload", FS_UPLOAD, UploadVersion, "upload")

C4_Witness ==
  /\ res["upload"] = "Panic"
  /\ Find(api_info, FS_UPLOAD).some
  /\ Find(api_info, FS_UPLOAD).val.min_version > UploadVersion
  /\ Count("upload") = 0
  /\ panic = "assert min_version"

\* C5: logout sends its request only when its fixed version lies within the
\* bounds of the Auth descriptor it is given.
C5_LogoutChecksVersion ==
  (call.fn = "logout" /\ call.done /\ call.result.sent) =>
    InBounds(Find(call.api, API_AUTH).val, AuthVersion)

\* C6: a successful discovery yields a table with an entry for every
\* requested namespace.
C6_DiscoveryFailsClosed ==
  res["discover"] = "Ok" => {x.name : x \in api_info} = RequestedNamespaces

\* C7: under the Upload namespace a code is decoded by the first of the
\* tiers Upload-specific (1800-1805), file-operation (400-421, 599),
\* protocol-common (100-107, 119) that holds it, and by the generic
\* unknown-code string when none does.
C7_UploadTiers ==
  (call.fn = "format_error_response" /\ call.done /\ call.api_name = FS_UPLOAD) =>
    /\ call.result.outcome = "Err"
    /\ call.result.msg[1] = call.code
    /\ call.result.msg[2] =
         IF call.code \in 1800..1805 THEN UploadErrorTable[call.code]
         ELSE IF call.code \in (400..421) \cup {599}
           THEN FileStationCommonErrorTable[call.code]
         ELSE IF call.code \in (100..107) \cup {119} THEN CommonErrorTable[call.code]
         ELSE "Error code unknown"

C7_Witness ==
  /\ call.fn = "format_error_response" /\ call.done
  /\ call.api_name = FS_UPLOAD
  /\ call.code = 408
  /\ call.result.msg = <<408, "No such file or directory">>

\* C8: decoding depends on the namespace: 400-404 give the Auth strings
\* under Auth and the file-operation strings under List and Upload, and
\* under Auth 405-421 and 599 give the generic unknown-code string.
C8_NamespaceScoped ==
  (call.fn = "format_error_response" /\ call.done) =>
    /\ (call.api_name = API_AUTH /\ call.code \in 400..404) =>
         /\ call.result.msg[2] = AuthErrorTable[call.code]
         /\ call.result.msg[2] # FileStationCommonErrorTable[call.code]
    /\ (call.api_name \in {FS_LIST, FS_UPLOAD} /\ call.code \in 400..404) =>
         call.result.msg[2] = FileStationCommonErrorTable[call.code]
    /\ (call.api_name = API_AUTH /\ call.code \in (405..421) \cup {599}) =>
         call.result.msg[2] = "Error code unknown"

C8_Witness ==
  /\ call.fn = "format_error_response" /\ call.done
  /\ call.api_name = API_AUTH
  /\ call.code = 408
  /\ call.result.msg = <<408, "Error code unknown">>

\* the call whose reply was received last was accepted: it returned Ok or Err
Accepted == resp.call # "none" /\ res[resp.call] \in {"Ok", "Err"}

Resolved == res["list"] = "Ok" /\ pc # "upload"

ExactMatches == {i \in 1..Len(shares) : shares[i].name = "docs"}

C10_ShareResolution ==
  Resolved =>
    IF ExactMatches # {}
      THEN /\ res["upload"] # "none"
           /\ res["upload"] = "Ok" => Count("upload") = 1
           /\ \A i \in 1..Len(sent) :
                sent[i].method = "upload" =>
                  /\ sent[i].path = shares[CHOOSE m \in ExactMatches :
                                             \A k \in ExactMatches : m <= k].path
                  /\ sent[i].path = "/docs"
      ELSE /\ Count("upload") = 0
           /\ res["upload"] = "none"
           /\ out = <<<<"Share not found - could not upload file">>>>
           /\ pc \in {"logout", "done", "aborted"}
           /\ pc = "aborted" => res["logout"] \in {"Err", "Panic"}
           /\ pc # "logout" => Count("logout") = 1

C10_Witness ==
  /\ pc = "done"
  /\ shares = <<[name |-> "Docs", path |-> "/Docs"], [name |-> "docs", path |-> "/docs"]>>
  /\ Count("upload") = 1
  /\ sent[4].method = "upload" /\ sent[4].path = "/docs"
  /\ Count("logout") = 1

\* the methods of the requests sent so far, in order
Methods == [i \in 1..Len(sent) |-> sent[i].method]

\* a table with a descriptor for every requested namespace whose bounds
\* contain the fixed version of each call
GoodTable(api) ==
  /\ {x.name : x \in api} = RequestedNamespaces
  /\ InBounds(Find(api, API_AUTH).val, AuthVersion)
  /\ InBounds(Find(api, FS_LIST).val, ListVersion)
  /\ InBounds(Find(api, FS_UPLOAD).val, UploadVersion)

\* the step taken received a reply with success=true to the request of c
SuccessReply(c) ==
  /\ resp'.call = c
  /\ resp'.reply.kind = "json"
  /\ resp'.reply.success

SharesReply ==
  /\ SuccessReply("list")
  /\ resp'.reply.data.some
  /\ resp'.reply.data.val.kind = "shares"
  /\ \E i \in 1..Len(resp'.reply.data.val.shares) :
       resp'.reply.data.val.shares[i].name = "docs"

C11_HappyStep ==
  /\ (pc = "discover" /\ SuccessReply("discover") /\ res'["discover"] = "Ok"
        /\ GoodTable(api_info')) =>
       (pc' = "login" /\ Methods' = <<"query">>)
  /\ (pc = "login" /\ GoodTable(api_info) /\ SuccessReply("login")) =>
       (pc' = "list" /\ Methods' = <<"query", "login">>)
  /\ (pc = "list" /\ GoodTable(api_info) /\ SharesReply) =>
       (pc' = "upload" /\ Methods' = <<"query", "login", "list_share">>)
  /\ (pc = "upload" /\ GoodTable(api_info) /\ SuccessReply("upload")) =>
       (pc' = "logout" /\ Methods' = <<"query", "login", "list_share", "upload">>)
  /\ (pc = "logout" /\ GoodTable(api_info) /\ res["upload"] = "Ok"
        /\ SuccessReply("logout")) =>
       (pc' = "done"
        /\ Methods' = <<"query", "login", "list_share", "upload", "logout">>)

\* C11: with a table holding all five namespaces with bounds containing the
\* fixed versions, each step that gets a success reply (the share list
\* holding the target share) goes on to the next step without aborting,
\* and the requests sent are discover, login, list shares, upload, logout,
\* in that order, each once.
C11_HappyPath == [][C11_HappyStep]_vars

C11_Witness ==
  /\ pc = "done"
  /\ GoodTable(api_info)
  /\ \A s \in Steps : res[s] = "Ok"
  /\ panic = ""
  /\ Methods = <<"query", "login", "list_share", "upload", "logout">>

\* C12: a discovery reply with success=false and an error code makes
\* get_api_versions return an error value (which main reports); the run
\* does not abort inside the error decoder.
C12_DiscoveryErrorReturned ==
  (/\ resp.call = "discover"
   /\ resp.reply.kind = "json"
   /\ ~resp.reply.success
   /\ resp.reply.error.some
   /\ resp.reply.error.val.hasCode) =>
    (/\ res["discover"] = "Err"
     /\ panic # "Unknown API name")

DigitVal(ch) == CHOOSE n \in 0..9 : DigitChars[n + 1] = ch

IsDigits(q) == \A i \in 1..Len(q) : q[i] \in {DigitChars[k] : k \in 1..10}

RECURSIVE Num(_)
Num(q) == IF q = <<>> THEN 0 ELSE 10 * Num(SubSeq(q, 1, Len(q) - 1)) + DigitVal(q[Len(q)])

\* ts is the time t written YYYYMMDD_HHMMSS
IsTimestamp(ts, t) ==
  /\ Len(ts) = 15
  /\ ts[9] = "_"
  /\ IsDigits(SubSeq(ts, 1, 8)) /\ IsDigits(SubSeq(ts, 10, 15))
  /\ Num(SubSeq(ts, 1, 4)) = t.year
  /\ Num(SubSeq(ts, 5, 6)) = t.month
  /\ Num(SubSeq(ts, 7, 8)) = t.day
  /\ Num(SubSeq(ts, 10, 11)) = t.hour
  /\ Num(SubSeq(ts, 12, 13)) = t.minute
  /\ Num(SubSeq(ts, 14, 15)) = t.second

\* the last dot of a name that is not its first character, or 0
ExtDot(f) ==
  LET d == {i \in 2..Len(f) : f[i] = "." /\ \A j \in (i + 1)..Len(f) : f[j] # "."} IN
  IF d = {} THEN 0 ELSE CHOOSE i \in d : TRUE

\* C13: the remote name is the stem, '_', the time as YYYYMMDD_HHMMSS, and
\* '.' with the extension after the last dot when the name has one;
\* backup.tar at 2024-03-05 10:15:30 gives backup_20240305_101530.tar and
\* README gives README_20240305_101530.
C13_RemoteFilename ==
  (call.fn = "add_dt_to_filename" /\ call.done /\ call.result.outcome = "Ok") =>
    LET f == call.filename
        o == call.result.val
        k == IF ExtDot(f) = 0 THEN Len(f) ELSE ExtDot(f) - 1
    IN /\ Len(o) = Len(f) + 16
       /\ SubSeq(o, 1, k) = SubSeq(f, 1, k)
       /\ o[k + 1] = "_"
       /\ IsTimestamp(SubSeq(o, k + 2, k + 16), call.now)
       /\ SubSeq(o, k + 17, Len(o)) = SubSeq(f, k + 1, Len(f))
       /\ (f = README /\ call.now.year = 2024) =>
            o = <<"R", "E", "A", "D", "M", "E", "_", "2", "0", "2", "4", "0", "3",
                  "0", "5", "_", "1", "0", "1", "5", "3", "0">>

C13_Witness ==
  /\ call.fn = "add_dt_to_filename" /\ call.done
  /\ call.filename = BACKUP_TAR
  /\ call.now = [year |-> 2024, month |-> 3, day |-> 5,
                 hour |-> 10, minute |-> 15, second |-> 30]
  /\ call.result.val =
       <<"b", "a", "c", "k", "u", "p", "_", "2", "0", "2", "4", "0", "3", "0", "5",
         "_", "1", "0", "1", "5", "3", "0", ".", "t", "a", "r">>

Failed(step) == res[step] \in {"Err", "Panic"}

\* C14: a request of a step is sent only after the steps before it
\* succeeded, and a failed discovery, login or share listing leaves the run
\* aborted with no request of a later step sent.
C14_StepOrder ==
  /\ Count("login") > 0 => res["discover"] = "Ok"
  /\ Count("list_share") > 0 => res["login"] = "Ok"
  /\ Count("upload") > 0 =>
       (res["list"] = "Ok" /\ \E i \in 1..Len(shares) : shares[i].name = "docs")
  /\ Failed("discover") =>
       (pc = "aborted" /\ Methods = <<"query">>)
  /\ Failed("login") =>
       (/\ pc = "aborted"
        /\ Count("list_share") = 0 /\ Count("upload") = 0 /\ Count("logout") = 0)
  /\ Failed("list") =>
       (pc = "aborted" /\ Count("upload") = 0 /\ Count("logout") = 0)

C14_Witness ==
  /\ res["list"] = "Err"
  /\ pc = "aborted"
  /\ panic = "I should be able to list shares"
  /\ Methods = <<"query", "login", "list_share">>

\* C15: no request is ever sent twice: at most one discovery, one login,
\* one share listing, one upload and one logout request per run.
C15_NoRetries ==
  \A m \in {"query", "login", "list_share", "upload", "logout"} : Count(m) <= 1

C15_Witness ==
  /\ Terminal
  /\ Len(sent) = 5
  /\ \A m \in {"query", "login", "list_share", "upload", "logout"} : Count(m) = 1
  /\ res["logout"] = "Err"

\* C16: upload_file checks the Upload version bounds first and the local
\* file second: out of bounds it aborts whether or not the file exists; in
\* bounds with the file missing it returns an error value; in neither case
\* is an upload request sent.
C16_MissingFile ==
  (call.fn = "upload_file" /\ call.done /\ Find(call.api, FS_UPLOAD).some) =>
    LET a == Find(call.api, FS_UPLOAD).val IN
    /\ ~InBounds(a, UploadVersion) =>
         (call.result.outcome = "Panic" /\ ~call.result.sent)
    /\ (InBounds(a, UploadVersion) /\ ~call.exists) =>
         (/\ call.result.outcome = "Err"
          /\ call.result.msg = <<"File to backup does not exist">>
          /\ ~call.result.sent)

C16_Witness ==
  /\ call.fn = "upload_file" /\ call.done
  /\ ~call.exists
  /\ Find(call.api, FS_UPLOAD).some
  /\ Find(call.api, FS_UPLOAD).val.max_version < UploadVersion
  /\ call.result.outcome = "Panic"
  /\ ~call.result.sent

\* the namespace a call decodes its errors under
NamespaceOf(fn) ==
  CASE fn = "login" -> API_AUTH
    [] fn = "logout" -> API_AUTH
    [] fn = "list_fileshares" -> FS_LIST
    [] fn = "upload_file" -> FS_UPLOAD

Decoded(api_name, c) ==
  CASE api_name = API_AUTH ->
         IF c \in 400..404 THEN AuthErrorTable[c]
         ELSE IF c \in DOMAIN CommonErrorTable THEN CommonErrorTable[c]
         ELSE "Error code unknown"
    [] api_name = FS_LIST ->
         IF c \in DOMAIN FileStationCommonErrorTable THEN FileStationCommonErrorTable[c]
         ELSE IF c \in DOMAIN CommonErrorTable THEN CommonErrorTable[c]
         ELSE "Error code unknown"
    [] api_name = FS_UPLOAD ->
         IF c \in 1800..1805 THEN UploadErrorTable[c]
         ELSE IF c \in DOMAIN FileStationCommonErrorTable THEN FileStationCommonErrorTable[c]
         ELSE IF c \in DOMAIN CommonErrorTable THEN CommonErrorTable[c]
         ELSE "Error code unknown"

\* C17: login, logout, list_fileshares and upload_file, on a reply with
\* success=false and error code c, return an error value whose message is
\* made of c and the string decoded for c under the call's namespace.
C17_DomainErrorDecorated ==
  (/\ call.fn \in {"login", "logout", "list_fileshares", "upload_file"}
   /\ call.done
   /\ call.result.sent
   /\ call.reply.kind = "json"
   /\ ~call.reply.success
   /\ call.reply.error.some
   /\ call.reply.error.val.hasCode) =>
    (/\ call.result.outcome = "Err"
     /\ call.result.msg =
          <<call.reply.error.val.code,
            Decoded(NamespaceOf(call.fn), call.reply.error.val.code)>>)

C17_Witness ==
  /\ call.fn = "list_fileshares" /\ call.done
  /\ call.result.sent
  /\ call.reply.kind = "json"
  /\ ~call.reply.success
  /\ call.result.outcome = "Err"
  /\ call.result.msg = <<400, "Invalid parameter of file operation">>

\* the entry the server advertised for a namespace
AdvertisedFor(api_name) ==
  CHOOSE e \in advertised.val.apis : e.name = api_name

AdvertisedInBounds(api_name, version) ==
  /\ AdvertisedFor(api_name).minVersion <= version
  /\ version <= AdvertisedFor(api_name).maxVersion

\* C18: the stored descriptor bounds are the advertised minVersion and
\* maxVersion themselves, and a login, share-listing or upload request is
\* sent only when the advertised bounds contain the call's fixed version.
C18_NoWrapAround ==
  res["discover"] = "Ok" =>
    /\ \A e \in advertised.val.apis :
         \E x \in api_info :
           /\ x.name = e.name
           /\ x.min_version = e.minVersion
           /\ x.max_version = e.maxVersion
    /\ Count("login") > 0 => AdvertisedInBounds(API_AUTH, AuthVersion)
    /\ Count("list_share") > 0 => AdvertisedInBounds(FS_LIST, ListVersion)
    /\ Count("upload") > 0 => AdvertisedInBounds(FS_UPLOAD, UploadVersion)
====
